---- MODULE Spec2Model ----
(***************************************************************************)
(* BERT pretraining: the resumable training loop of train.py and the      *)
(* sentence-pair dataset of pretrain/bookcorpus.py.                        *)
(*                                                                         *)
(* Spec     : the training process (start or resume, step loop, report,    *)
(*            checkpoint write and rotation), with process termination.    *)
(* SpecDataset  : __getitem__ and _sample_next_sentence on bounded corpora. *)
(* SpecAssemble : _to_bert_input on drawn sequences.                        *)
(* SpecSegment  : _token_ids_to_segment_ids on drawn arguments.             *)
(* SpecSteps    : the step budget N_STEPS of train.py:60.                    *)
(***************************************************************************)
EXTENDS Integers, Sequences, FiniteSets, TLC

(* ------------------------------ bounds -------------------------------- *)
\* largest N_STEPS (train.py:60) explored
MaxSteps == 4
\* largest --batch_size explored
MaxBatch == 2
\* largest config.N_CKPT_SAMPLES explored
MaxCkptSamples == 3
\* largest len(ds) explored
MaxExamples == 2

\* (nsp_loss.item(), mlm_loss.item()) of one step, train.py:156-157
LossPairs == {<<1, 2>>, <<2, 1>>}

VARIABLES
    \* command line and static configuration of the run
    batch_size, N_STEPS, N_CKPT_SAMPLES, n_examples,
    \* the checkpoint directory: file name (its step) -> file or NoFile
    disk,
    \* the training process
    pc, err, CKPT_PATH, init_step, step, di,
    running_nsp_loss, running_mlm_loss, running_loss, step_cnt,
    prev_ckpt_path, cur_ckpt_path,
    \* what the last progress line printed: sums and divisor
    printed,
    \* history: losses and steps since the last report (or loop start)
    since_nsp, since_mlm, since_cnt,
    \* history: first step this process executed (0: none yet)
    first_step,
    \* history: the loop step at which the supplied checkpoint was written
    supplied_at,
    \* history: files this process wrote completely
    written,
    \* history: step recorded by the checkpoint before the next one
    last_rec,
    \* history: file of the last successfully written checkpoint of the run
    recovery,
    \* history: the sums and the count a report is expected to print
    expected,
    \* history: the steps this process has executed
    executed,
    \* the dataset: self.ls_token_ids, self.max_len
    ls_token_ids, max_len,
    \* the last call made on the dataset and what it returned or raised
    result

trainVars == <<batch_size, N_STEPS, N_CKPT_SAMPLES, n_examples, disk, pc, err,
               CKPT_PATH, init_step, step, di, running_nsp_loss,
               running_mlm_loss, running_loss, step_cnt, prev_ckpt_path,
               cur_ckpt_path, printed, since_nsp, since_mlm, since_cnt,
               first_step, supplied_at, written, last_rec, recovery, expected,
               executed>>

dataVars == <<ls_token_ids, max_len, result>>

vars == <<trainVars, dataVars>>

(* ------------------------------ files --------------------------------- *)
Files == 1..MaxSteps
NoFile == [state |-> "absent", step |-> 0, at |-> 0]

\* a path value: Python str or pathlib.Path; file 0 names no checkpoint
StrPath(f) == [kind |-> "str", file |-> f]
PathPath(f) == [kind |-> "Path", file |-> f]
NoPath == [kind |-> "None", file |-> 0]

\* Path(p).exists()
Exists(p) == p.file \in Files /\ disk[p.file].state # "absent"

\* the record save_checkpoint builds: "step": step
CkptRecordPrev(s) == s - 1
CkptRecord(s) == s

\* ckpt["step"] of the loaded record
InitStep(ckpt) == ckpt.step

\* range(init_step + 1, N_STEPS + 1): the first value
RangeStart(i) == i + 1

\* DataLoader(drop_last=True): batches of one pass over the dataset
BatchesPerEpoch == n_examples \div batch_size

\* config.N_CKPT_SAMPLES // args.batch_size
SaveInterval == N_CKPT_SAMPLES \div batch_size

(* ------------------------------ Init ---------------------------------- *)
\* no call has been made on the dataset
NoResult == [op |-> "none", status |-> "none", idx |-> 0, coin |-> "none",
             arg |-> [kind |-> "none", v |-> <<>>], prev |-> <<>>,
             next |-> <<>>, out |-> <<>>, seg |-> <<>>, is_next |-> 0]

\* the training process before it is started, with no checkpoint on disk
ProcessOff ==
    /\ disk = [f \in Files |-> NoFile]
    /\ pc = "off"
    /\ err = "none"
    /\ CKPT_PATH = NoPath
    /\ init_step = 0
    /\ step = 0
    /\ di = 0
    /\ running_nsp_loss = 0
    /\ running_mlm_loss = 0
    /\ running_loss = 0
    /\ step_cnt = 0
    /\ prev_ckpt_path = NoPath
    /\ cur_ckpt_path = NoPath
    /\ printed = [nsp |-> 0, mlm |-> 0, cnt |-> 0]
    /\ since_nsp = 0
    /\ since_mlm = 0
    /\ since_cnt = 0
    /\ first_step = 0
    /\ supplied_at = 0
    /\ written = {}
    /\ last_rec = 0
    /\ recovery = 0
    /\ expected = [nsp |-> 0, mlm |-> 0, cnt |-> 0]
    /\ executed = 0

Init ==
    /\ batch_size \in 1..MaxBatch
    /\ N_STEPS \in 1..MaxSteps
    /\ N_CKPT_SAMPLES \in 1..MaxCkptSamples
    /\ n_examples \in 1..MaxExamples
    /\ ProcessOff
    /\ ls_token_ids = <<>>
    /\ max_len = 1
    /\ result = NoResult

(* --------------------- train.py: start / resume ----------------------- *)
configVars == <<batch_size, N_STEPS, N_CKPT_SAMPLES, n_examples>>
lossVars == <<running_nsp_loss, running_mlm_loss, running_loss, step_cnt,
              printed, since_nsp, since_mlm, since_cnt, expected, executed>>

Running == {"enter", "for", "draw", "train", "check", "save", "saving", "rotate"}

\* the values config.CKPT_PATH may hold: None, or the name of a checkpoint
\* file given as a str or as a pathlib.Path (torch.load takes both)
CkptPathValues ==
    {NoPath} \cup {StrPath(f) : f \in Files} \cup {PathPath(f) : f \in Files}

\* lines 48-122 with config.CKPT_PATH = p
Startup(p) ==
    /\ CKPT_PATH' = p
    /\ IF p = NoPath
       THEN \* lines 114-116
            /\ init_step' = 0
            /\ prev_ckpt_path' = StrPath(0)
            /\ supplied_at' = 0
            /\ last_rec' = 0
            /\ recovery' = 0
            /\ pc' = "enter"
            /\ err' = "none"
       ELSE IF disk[p.file].state = "full"
       THEN \* lines 105-113
            /\ init_step' = InitStep(disk[p.file])
            /\ prev_ckpt_path' = p
            /\ supplied_at' = disk[p.file].at
            /\ last_rec' = disk[p.file].step
            /\ recovery' = p.file
            /\ pc' = "enter"
            /\ err' = "none"
       ELSE \* torch.load raises: no such file, or a truncated one
            /\ pc' = "off"
            /\ err' = "LoadError"
            /\ UNCHANGED <<init_step, prev_ckpt_path, supplied_at, last_rec,
                           recovery>>
    /\ step' = 0
    /\ di' = BatchesPerEpoch
    /\ running_nsp_loss' = 0
    /\ running_mlm_loss' = 0
    /\ running_loss' = 0
    /\ step_cnt' = 0
    /\ cur_ckpt_path' = NoPath
    /\ printed' = [nsp |-> 0, mlm |-> 0, cnt |-> 0]
    /\ expected' = [nsp |-> 0, mlm |-> 0, cnt |-> 0]
    /\ executed' = 0
    /\ since_nsp' = 0
    /\ since_mlm' = 0
    /\ since_cnt' = 0
    /\ first_step' = 0
    /\ written' = {}
    /\ UNCHANGED <<configVars, dataVars, disk>>

Start ==
    /\ pc \in {"off", "done"}
    /\ \E p \in CkptPathValues : Startup(p)

(* ------------------------ train.py: step loop -------------------------- *)
\* line 123: the for statement takes the next value of the range, or ends
ForNext ==
    /\ pc \in {"enter", "for"}
    /\ LET nxt == IF pc = "enter" THEN RangeStart(init_step) ELSE step + 1
       IN IF nxt <= N_STEPS
          THEN /\ step' = nxt
               /\ pc' = "draw"
               /\ first_step' = IF first_step = 0 THEN nxt ELSE first_step
          ELSE /\ pc' = "done"
               /\ UNCHANGED <<step, first_step>>
    /\ UNCHANGED <<configVars, dataVars, disk, err, CKPT_PATH, init_step, di, lossVars,
                   prev_ckpt_path, cur_ckpt_path, supplied_at, written,
                   last_rec, recovery>>

\* lines 124-128: next(di), and on StopIteration a new iterator and next(di)
Draw ==
    /\ pc = "draw"
    /\ IF di > 0
       THEN /\ di' = di - 1
            /\ pc' = "train"
            /\ err' = err
       ELSE IF BatchesPerEpoch > 0
       THEN /\ di' = BatchesPerEpoch - 1
            /\ pc' = "train"
            /\ err' = err
       ELSE \* the second next(di) raises StopIteration inside the handler
            /\ di' = 0
            /\ pc' = "off"
            /\ err' = "StopIteration"
    /\ UNCHANGED <<configVars, dataVars, disk, CKPT_PATH, init_step, step, lossVars,
                   prev_ckpt_path, cur_ckpt_path, first_step, supplied_at,
                   written, last_rec, recovery>>

\* lines 130-158: one optimisation step, then the accumulators
TrainStep ==
    /\ pc = "train"
    /\ \E l \in LossPairs :
        /\ running_nsp_loss' = running_nsp_loss + l[1]
        /\ running_mlm_loss' = running_mlm_loss + l[2]
        /\ since_nsp' = since_nsp + l[1]
        /\ since_mlm' = since_mlm + l[2]
    /\ step_cnt' = step_cnt + 1
    /\ since_cnt' = since_cnt + 1
    /\ executed' = executed + 1
    /\ pc' = "check"
    /\ UNCHANGED <<configVars, dataVars, disk, err, CKPT_PATH, init_step, step, di,
                   running_loss, printed, expected, prev_ckpt_path,
                   cur_ckpt_path, first_step, supplied_at, written, last_rec,
                   recovery>>

\* line 160, evaluated where the modulus is not zero
CkptCondition == (step % SaveInterval = 0) \/ (step = N_STEPS)

\* lines 160-166: the checkpoint condition and, when it fires, the report
CheckReport ==
    /\ pc = "check"
    /\ IF SaveInterval = 0
       THEN \* step % 0 raises ZeroDivisionError
            /\ pc' = "off"
            /\ err' = "ZeroDivisionError"
            /\ UNCHANGED lossVars
       ELSE IF CkptCondition
       THEN /\ printed' = [nsp |-> running_nsp_loss, mlm |-> running_mlm_loss,
                           cnt |-> step_cnt]
            /\ expected' = [nsp |-> since_nsp, mlm |-> since_mlm, cnt |-> since_cnt]
            /\ running_loss' = 0
            /\ step_cnt' = 0
            /\ since_nsp' = 0
            /\ since_mlm' = 0
            /\ since_cnt' = 0
            /\ pc' = "save"
            /\ UNCHANGED <<err, running_nsp_loss, running_mlm_loss, executed>>
       ELSE /\ pc' = "for"
            /\ UNCHANGED <<err, lossVars>>
    /\ UNCHANGED <<configVars, dataVars, disk, CKPT_PATH, init_step, step, di,
                   prev_ckpt_path, cur_ckpt_path, first_step, supplied_at,
                   written, last_rec, recovery>>

(* ----------------- train.py: checkpoint write and rotation ------------- *)
ckptFixed == <<configVars, dataVars, CKPT_PATH, init_step, step, di, lossVars,
               first_step, supplied_at>>

\* SaveOpen with the previous file removed before the write (not the code)
SaveOpenUnlinkFirst ==
    /\ pc = "save"
    /\ cur_ckpt_path' = PathPath(step)
    /\ disk' = [f \in Files |->
                   IF f = step
                   THEN [state |-> "partial", step |-> CkptRecord(step), at |-> step]
                   ELSE IF f = prev_ckpt_path.file THEN NoFile ELSE disk[f]]
    /\ pc' = "saving"
    /\ UNCHANGED <<ckptFixed, err, prev_ckpt_path, written, last_rec, recovery>>

\* lines 168-169 and 33-44: cur_ckpt_path is named after the step and
\* torch.save opens it for writing; the file is incomplete until SaveDone
SaveOpen ==
    /\ pc = "save"
    /\ cur_ckpt_path' = PathPath(step)
    /\ disk' = [disk EXCEPT ![step] =
                   [state |-> "partial", step |-> CkptRecord(step), at |-> step]]
    /\ pc' = "saving"
    /\ UNCHANGED <<ckptFixed, err, prev_ckpt_path, written, last_rec, recovery>>

\* torch.save raises while writing (line 44): the exception ends the process
SaveFail ==
    /\ pc = "saving"
    /\ pc' = "off"
    /\ err' = "SaveError"
    /\ UNCHANGED <<ckptFixed, disk, prev_ckpt_path, cur_ckpt_path, written,
                   last_rec, recovery>>

\* lines 44-45: torch.save returns, the file is complete
SaveDone ==
    /\ pc = "saving"
    /\ disk' = [disk EXCEPT ![cur_ckpt_path.file].state = "full"]
    /\ written' = written \cup {cur_ckpt_path.file}
    /\ last_rec' = disk[cur_ckpt_path.file].step
    /\ recovery' = cur_ckpt_path.file
    /\ pc' = "rotate"
    /\ UNCHANGED <<ckptFixed, err, prev_ckpt_path, cur_ckpt_path>>

\* lines 172-174: Path(prev_ckpt_path).exists(), prev_ckpt_path.unlink()
\* (a str has no unlink), prev_ckpt_path = cur_ckpt_path
Rotate ==
    /\ pc = "rotate"
    /\ IF Exists(prev_ckpt_path)
       THEN IF prev_ckpt_path.kind = "Path"
            THEN /\ disk' = [disk EXCEPT ![prev_ckpt_path.file] = NoFile]
                 /\ prev_ckpt_path' = cur_ckpt_path
                 /\ pc' = "for"
                 /\ err' = err
            ELSE /\ pc' = "off"
                 /\ err' = "AttributeError"
                 /\ UNCHANGED <<disk, prev_ckpt_path>>
       ELSE /\ prev_ckpt_path' = cur_ckpt_path
            /\ pc' = "for"
            /\ err' = err
            /\ disk' = disk
    /\ UNCHANGED <<ckptFixed, cur_ckpt_path, written, last_rec, recovery>>

\* the process is terminated from outside at any point of its run
Kill ==
    /\ pc \in Running
    /\ pc' = "off"
    /\ err' = "killed"
    /\ UNCHANGED <<ckptFixed, disk, prev_ckpt_path, cur_ckpt_path, written,
                   last_rec, recovery>>

Next ==
    \/ Start
    \/ ForNext
    \/ Draw
    \/ TrainStep
    \/ CheckReport
    \/ SaveOpen
    \/ SaveFail
    \/ SaveDone
    \/ Rotate
    \/ Kill

Spec == Init /\ [][Next]_vars

(* =================== pretrain/bookcorpus.py: dataset =================== *)
\* largest number of paragraphs of a corpus
MaxCorpus == 2
\* largest max_len
MaxMaxLen == 8
\* longest token-id sequence given to _to_bert_input
MaxSeqLen == 3
\* longest tensor given to _token_ids_to_segment_ids
MaxTensorLen == 4

\* tokenizer.token_to_id of "[CLS]", "[SEP]", "[PAD]"
cls_id == 1
sep_id == 2
pad_id == 0

\* tokenised paragraphs a corpus is made of (tokenizer.encode(parag).ids)
Paragraphs == {<<>>, <<5>>, <<5, 6>>, <<7, 6>>, <<5, 6, 7, 6, 5, 6, 7, 6, 5>>}
\* token ids of the sequences given to _to_bert_input
AsmTokens == {sep_id, 5, 6}
\* token ids of the tensors given to _token_ids_to_segment_ids
TensorTokens == {pad_id, sep_id, 5}

SeqsUpTo(S, n) == UNION {[1..k -> S] : k \in 0..n}

\* Python values that the code tells apart by type
PyList(v) == [kind |-> "list", v |-> v]
Tensor(v) == [kind |-> "tensor", v |-> v]
PyInt(n) == [kind |-> "int", v |-> <<n>>]

Min(a, b) == IF a < b THEN a ELSE b
Max(a, b) == IF a > b THEN a ELSE b

\* s[:n], n of either sign
SliceTo(s, n) ==
    SubSeq(s, 1, IF n >= 0 THEN Min(n, Len(s)) ELSE Max(Len(s) + n, 0))

\* [x] * n, empty when n <= 0
Repeat(x, n) == [i \in 1..n |-> x]

\* s[i] of a list, i counted from 0, negative i from the end
ListGetWrap(s, i) ==
    IF Len(s) = 0 THEN [status |-> "IndexError", v |-> <<>>]
    ELSE [status |-> "ok", v |-> s[(i % Len(s)) + 1]]
ListGet(s, i) ==
    IF 0 <= i /\ i < Len(s) THEN [status |-> "ok", v |-> s[i + 1]]
    ELSE IF -Len(s) <= i /\ i < 0 THEN [status |-> "ok", v |-> s[Len(s) + i + 1]]
    ELSE [status |-> "IndexError", v |-> <<>>]

\* random.choice(x): len(x) of an int raises TypeError; the outcomes
RandomChoice(x) ==
    IF x.kind = "int" THEN {[status |-> "TypeError", v |-> 0]}
    ELSE IF Len(x.v) = 0 THEN {[status |-> "IndexError", v |-> 0]}
    ELSE {[status |-> "ok", v |-> x.v[i]] : i \in 1..Len(x.v)}

\* _to_bert_input (lines 55-60), a list
to_bert_input_untruncated(prev_token_ids, next_token_ids, ml) ==
    LET token_ids ==
            <<cls_id>> \o SliceTo(prev_token_ids, ml - 3) \o <<sep_id>>
                \o next_token_ids \o <<sep_id>>
    IN token_ids \o Repeat(pad_id, ml - Len(token_ids))
to_bert_input_sep_then_truncate(prev_token_ids, next_token_ids, ml) ==
    LET token_ids ==
            SliceTo(<<cls_id>> \o SliceTo(prev_token_ids, ml - 3) \o <<sep_id>>
                        \o next_token_ids \o <<sep_id>>, ml)
    IN token_ids \o Repeat(pad_id, ml - Len(token_ids))
to_bert_input(prev_token_ids, next_token_ids, ml) ==
    LET token_ids ==
            SliceTo(<<cls_id>> \o SliceTo(prev_token_ids, ml - 3) \o <<sep_id>>
                        \o next_token_ids, ml - 1) \o <<sep_id>>
    IN token_ids \o Repeat(pad_id, ml - Len(token_ids))

\* seg_ids[lo: hi] = x, lo and hi counted from 0
SliceAssign(s, lo, hi, x) ==
    [i \in 1..Len(s) |-> IF lo < i /\ i <= hi THEN x ELSE s[i]]

\* is_sep.nonzero(): the positions of [SEP], counted from 0
SepPositions(v) == {i - 1 : i \in {j \in 1..Len(v) : v[j] = sep_id}}

SetMin(S) == CHOOSE x \in S : \A y \in S : x <= y
SetMax(S) == CHOOSE x \in S : \A y \in S : x >= y

\* _token_ids_to_segment_ids (lines 72-78) of a tensor
segment_ids_to_end(v) ==
    LET seg_ids == Repeat(0, Len(v))
        is_sep == SepPositions(v)
    IN IF Cardinality(is_sep) = 2
       THEN SliceAssign(seg_ids, SetMin(is_sep) + 1, Len(v), 1)
       ELSE seg_ids
segment_ids(v) ==
    LET seg_ids == Repeat(0, Len(v))
        is_sep == SepPositions(v)
    IN IF Cardinality(is_sep) = 2
       THEN SliceAssign(seg_ids, SetMin(is_sep) + 1, SetMax(is_sep) + 1, 1)
       ELSE seg_ids

\* _token_ids_to_segment_ids of any value: token_ids.dtype (line 73) is
\* an attribute of a tensor, not of a list
token_ids_to_segment_ids(x) ==
    IF x.kind = "tensor" THEN [status |-> "ok", v |-> segment_ids(x.v)]
    ELSE [status |-> "AttributeError", v |-> <<>>]

Coins == {"is_next", "not_next"}

\* _sample_next_sentence with random.randrange(len(self.ls_token_ids)) on
\* the not-next branch (not the code)
sample_next_sentence_randrange(ls, idx, coin) ==
    IF coin = "is_next"
    THEN LET got == ListGet(ls, idx + 1)
         IN {[status |-> got.status, next |-> got.v, is_next |-> 1]}
    ELSE {[status |-> "ok", next |-> ls[j], is_next |-> 0] : j \in 1..Len(ls)}

\* _sample_next_sentence (lines 62-70) when random.random() < 0.5 is `coin`:
\* the outcomes [status, next_token_ids, is_next]
sample_next_sentence(ls, idx, coin) ==
    IF coin = "is_next"
    THEN LET got == ListGet(ls, idx + 1)
         IN {[status |-> got.status, next |-> got.v, is_next |-> 1]}
    ELSE {IF c.status # "ok"
          THEN [status |-> c.status, next |-> <<>>, is_next |-> 0]
          ELSE LET got == ListGet(ls, c.v)
               IN [status |-> got.status, next |-> got.v, is_next |-> 0] :
          c \in RandomChoice(PyInt(Len(ls)))}

\* __getitem__ (lines 83-88): the outcomes, as the record of the call
getitem(ls, ml, idx, coin) ==
    LET prev == ListGet(ls, idx)
        base == [NoResult EXCEPT !.op = "getitem", !.idx = idx, !.coin = coin]
    IN IF prev.status # "ok" THEN {[base EXCEPT !.status = prev.status]}
       ELSE {IF smp.status # "ok"
             THEN [base EXCEPT !.status = smp.status, !.prev = prev.v]
             ELSE LET token_ids == to_bert_input(prev.v, smp.next, ml)
                      seg == token_ids_to_segment_ids(PyList(token_ids))
                  IN [base EXCEPT !.status = seg.status, !.prev = prev.v,
                                  !.next = smp.next, !.out = token_ids,
                                  !.seg = seg.v, !.is_next = smp.is_next] :
             smp \in sample_next_sentence(ls, idx, coin)}

(* ------------------- list objects and their aliases -------------------- *)
\* The list objects of the interpreter during one call: objects 1..Len(ls)
\* are the stored paragraphs (self.ls_token_ids[i] is a reference, not a
\* copy), later objects are the lists the call builds.

\* a + b, s[:n] and [x] each build a new list object
NewList(heap, v) == Append(heap, v)

\* the object that `token_ids += ...` of line 59 extends in place, were
\* token_ids the list of the stored paragraph (not the code)
PadTargetPrev(heap, prev_ref) == prev_ref
\* the object that `token_ids += ...` of line 59 extends in place: the list
\* built by the expression of lines 56-58
PadTarget(heap, prev_ref) == Len(heap)

\* _to_bert_input (lines 55-60) on the heap: the heap after the call
to_bert_input_heap(heap, prev_ref, next_ref, ml) ==
    LET h1 == NewList(heap,
                  SliceTo(<<cls_id>> \o SliceTo(heap[prev_ref], ml - 3)
                              \o <<sep_id>> \o heap[next_ref], ml - 1)
                      \o <<sep_id>>)
        t == PadTarget(h1, prev_ref)
    IN [h1 EXCEPT ![t] = h1[t] \o Repeat(pad_id, ml - Len(h1[t]))]

\* self.ls_token_ids after the call of __getitem__ recorded as r: line 86
\* runs when lines 84-85 raised nothing
getitem_corpus(ls, ml, r) ==
    IF r.status \in {"IndexError", "TypeError"} THEN ls
    ELSE LET prev_ref == r.idx + 1
             \* the list of the corpus that line 85 returned
             next_ref == CHOOSE j \in 1..Len(ls) : ls[j] = r.next
         IN SubSeq(to_bert_input_heap(ls, prev_ref, next_ref, ml), 1, Len(ls))

(* --------------------------- dataset actions --------------------------- *)
\* ds[idx] for an index of the sampler
GetItem ==
    /\ \E idx \in 0..(Len(ls_token_ids) - 1), coin \in Coins :
           \E r \in getitem(ls_token_ids, max_len, idx, coin) :
               /\ result' = r
               /\ ls_token_ids' = getitem_corpus(ls_token_ids, max_len, r)
    /\ UNCHANGED <<trainVars, max_len>>

\* ds._sample_next_sentence(idx)
SampleNextSentence ==
    /\ \E idx \in 0..(Len(ls_token_ids) - 1), coin \in Coins :
           \E smp \in sample_next_sentence(ls_token_ids, idx, coin) :
               result' = [NoResult EXCEPT !.op = "sample_next_sentence",
                              !.status = smp.status, !.idx = idx,
                              !.coin = coin, !.out = smp.next,
                              !.is_next = smp.is_next]
    /\ UNCHANGED <<trainVars, ls_token_ids, max_len>>

\* ds._to_bert_input(prev_token_ids, next_token_ids) on the drawn sequences
ToBertInput ==
    /\ result.op = "none"
    /\ result' = [result EXCEPT !.op = "to_bert_input", !.status = "ok",
                      !.out = to_bert_input(result.prev, result.next, max_len)]
    /\ UNCHANGED <<trainVars, ls_token_ids, max_len>>

\* ds._token_ids_to_segment_ids(token_ids) on the drawn tensor or list
SegmentIds ==
    /\ result.op = "none"
    /\ LET seg == token_ids_to_segment_ids(result.arg)
       IN result' = [result EXCEPT !.op = "token_ids_to_segment_ids",
                         !.status = seg.status, !.seg = seg.v]
    /\ UNCHANGED <<trainVars, ls_token_ids, max_len>>

\* the training configuration left alone while the dataset is exercised
TrainIdle ==
    /\ batch_size = 1
    /\ N_STEPS = 1
    /\ N_CKPT_SAMPLES = 1
    /\ n_examples = 1
    /\ ProcessOff

\* a dataset after construction (lines 27-53): the corpus and max_len
InitDataset ==
    /\ TrainIdle
    /\ ls_token_ids \in UNION {[1..k -> Paragraphs] : k \in 1..MaxCorpus}
    /\ max_len \in 1..MaxMaxLen
    /\ result = NoResult

NextDataset == GetItem \/ SampleNextSentence

SpecDataset == InitDataset /\ [][NextDataset]_vars

\* _to_bert_input on its own: the two sequences and max_len are drawn
InitAssemble ==
    /\ TrainIdle
    /\ ls_token_ids = <<>>
    /\ max_len \in 1..MaxMaxLen
    /\ \E p \in SeqsUpTo(AsmTokens, MaxSeqLen), n \in SeqsUpTo(AsmTokens, MaxSeqLen) :
           result = [NoResult EXCEPT !.prev = p, !.next = n]

NextAssemble == ToBertInput

SpecAssemble == InitAssemble /\ [][NextAssemble]_vars

\* _token_ids_to_segment_ids on its own: the argument is drawn
InitSegment ==
    /\ TrainIdle
    /\ ls_token_ids = <<>>
    /\ max_len = 1
    /\ \E v \in SeqsUpTo(TensorTokens, MaxTensorLen), k \in {"tensor", "list"} :
           result = [NoResult EXCEPT !.arg = [kind |-> k, v |-> v]]

NextSegment == SegmentIds

SpecSegment == InitSegment /\ [][NextSegment]_vars

(* ---------------------- train.py: the step budget --------------------- *)
\* largest batch size and max_len given to the budget arithmetic, next to
\* 256 and 512
MaxBudgetArg == 8

\* Python integers do not overflow. 256 * 512 * 1_000_000 does not fit the
\* integers of the checker, so the budget and the quotient are kept as
\* sequences of limbs of base Base, least significant first, without
\* leading zero limbs (the empty sequence is 0).
Base == 1000

RECURSIVE BigOf(_)
BigOf(n) == IF n = 0 THEN <<>> ELSE <<n % Base>> \o BigOf(n \div Base)

RECURSIVE Normalize(_)
Normalize(a) ==
    IF a # <<>> /\ a[Len(a)] = 0 THEN Normalize(SubSeq(a, 1, Len(a) - 1))
    ELSE a

RECURSIVE MulCarry(_, _, _)
MulCarry(a, k, c) ==
    IF a = <<>> THEN BigOf(c)
    ELSE LET t == Head(a) * k + c
         IN <<t % Base>> \o MulCarry(Tail(a), k, t \div Base)

\* a * k
BigMul(a, k) == Normalize(MulCarry(a, k, 0))

\* the remainder of the limbs i.. of a divided by d
RECURSIVE RemFrom(_, _, _)
RemFrom(a, d, i) ==
    IF i > Len(a) THEN 0 ELSE (RemFrom(a, d, i + 1) * Base + a[i]) % d

\* a // d, d > 0
BigDiv(a, d) ==
    Normalize([i \in 1..Len(a) |-> (RemFrom(a, d, i + 1) * Base + a[i]) \div d])

\* a < b
RECURSIVE BigLess(_, _)
BigLess(a, b) ==
    IF Len(a) # Len(b) THEN Len(a) < Len(b)
    ELSE IF a = <<>> THEN FALSE
    ELSE IF a[Len(a)] # b[Len(b)] THEN a[Len(a)] < b[Len(b)]
    ELSE BigLess(SubSeq(a, 1, Len(a) - 1), SubSeq(b, 1, Len(b) - 1))

\* a + b
RECURSIVE AddCarry(_, _, _)
AddCarry(a, b, c) ==
    IF a = <<>> /\ b = <<>> THEN BigOf(c)
    ELSE LET x == IF a = <<>> THEN 0 ELSE Head(a)
             y == IF b = <<>> THEN 0 ELSE Head(b)
             t == x + y + c
         IN <<t % Base>> \o AddCarry(IF a = <<>> THEN a ELSE Tail(a),
                                     IF b = <<>> THEN b ELSE Tail(b),
                                     t \div Base)
BigAdd(a, b) == Normalize(AddCarry(a, b, 0))

\* 256 * 512 * 1_000_000 of line 60
TokenBudget == BigMul(BigMul(BigOf(256), 512), 1000000)

\* line 60 with the divisor args.batch_size alone (not the code)
NStepsPerSequence(bs, ml) == BigDiv(TokenBudget, bs)
\* line 60: N_STEPS = (256 * 512 * 1_000_000) // (args.batch_size * config.MAX_LEN)
NSteps(bs, ml) == BigDiv(TokenBudget, bs * ml)

\* lines 54-60: the arguments are read and N_STEPS is computed
ComputeNSteps ==
    /\ pc = "off"
    /\ N_STEPS = <<>>
    /\ N_STEPS' = NSteps(batch_size, max_len)
    /\ pc' = "n_steps"
    /\ UNCHANGED <<batch_size, N_CKPT_SAMPLES, n_examples, disk, err,
                   CKPT_PATH, init_step, step, di, lossVars, prev_ckpt_path,
                   cur_ckpt_path, first_step, supplied_at, written, last_rec,
                   recovery, dataVars>>

\* the process before line 60, for the batch sizes and max_len explored
InitSteps ==
    /\ batch_size \in (1..MaxBudgetArg) \cup {256}
    /\ max_len \in (1..MaxBudgetArg) \cup {512}
    /\ N_STEPS = <<>>
    /\ N_CKPT_SAMPLES = 1
    /\ n_examples = 1
    /\ ProcessOff
    /\ ls_token_ids = <<>>
    /\ result = NoResult

NextSteps == ComputeNSteps

SpecSteps == InitSteps /\ [][NextSteps]_vars

(* ===================== claims on the training loop ==================== *)

\* every checkpoint file records the step at which the loop wrote it
C1_RecordsItsStep ==
    \A f \in Files : disk[f].state # "absent" => disk[f].step = disk[f].at

\* a fresh loop executes step 1 first; a loop started with the checkpoint
\* written at step S executes S + 1 first
C1_FirstStepFollows ==
    first_step # 0 =>
        IF CKPT_PATH = NoPath THEN first_step = 1
        ELSE first_step = supplied_at + 1

\* a completed write records a step larger than the step recorded by the
\* checkpoint before it (the previous write of the process, or the
\* checkpoint the process was started with)
C1_WritesIncrease ==
    (pc = "saving" /\ pc' = "rotate") =>
        disk'[cur_ckpt_path.file].step > last_rec

\* C1: the step counter survives the checkpoint round trip. A checkpoint
\* written at step S records step S, the loop started with it executes S + 1
\* first, and the steps recorded by successive checkpoints strictly increase
\* within a process and from a supplied checkpoint to the ones written after.
C1_StepRoundTrip ==
    [](C1_RecordsItsStep /\ C1_FirstStepFollows) /\ [][C1_WritesIncrease]_vars

\* a resumed process has executed its first step and completed a write
C1_Witness ==
    /\ pc = "rotate"
    /\ CKPT_PATH # NoPath
    /\ supplied_at >= 1
    /\ first_step = supplied_at + 1
    /\ disk[cur_ckpt_path.file].step > init_step

\* the checkpoint files of the run of the current process that are on disk:
\* the supplied one and the ones the process wrote
RunFilesOnDisk ==
    {f \in Files : /\ f \in written \cup {CKPT_PATH.file}
                   /\ disk[f].state # "absent"}

\* the process has written a checkpoint and has gone through lines 172-174
\* for it: it is past them, or it ended in them with an exception
SaveCompleted ==
    /\ written # {}
    /\ \/ pc \in {"for", "draw", "train", "check", "save", "done"}
       \/ pc = "off" /\ err = "AttributeError"

\* C2: after every completed checkpoint save exactly one checkpoint file of
\* the run is on disk, the one just written, in a fresh run and in a run
\* resumed from a supplied checkpoint.
C2_OneFileAfterSave ==
    SaveCompleted => RunFilesOnDisk = {cur_ckpt_path.file}

\* the last successfully written checkpoint of the run (the supplied one
\* until the process has written its own) is complete on disk
C3_RecoveryOnDisk ==
    recovery # 0 => disk[recovery].state = "full"

\* a file leaves the disk only in the rotation, once the new file is complete
C3_UnlinkAfterWrite ==
    \A f \in Files :
        (disk[f].state # "absent" /\ disk'[f].state = "absent") =>
            /\ pc = "rotate"
            /\ f # cur_ckpt_path.file
            /\ disk[cur_ckpt_path.file].state = "full"

\* C3: the previous checkpoint is deleted only after the write of the new
\* one has returned; when a write fails or the process is terminated during
\* or between the write and the delete, the previous file is still on disk,
\* so the last successfully written checkpoint is always complete on disk.
C3_PreviousKeptUntilWritten ==
    []C3_RecoveryOnDisk /\ [][C3_UnlinkAfterWrite]_vars

\* a write failed half way with the previous checkpoint still in place
C3_Witness ==
    /\ pc = "off"
    /\ err = "SaveError"
    /\ prev_ckpt_path.file \in Files
    /\ recovery = prev_ckpt_path.file
    /\ disk[recovery].state = "full"
    /\ disk[cur_ckpt_path.file].state = "partial"

\* C4: at every report the two loss accumulators and the count are reset,
\* and the printed means are the sums over the steps since the previous
\* report (or loop start) divided by the number of those steps.
C4_ReportMeansSinceLast ==
    pc = "save" =>
        /\ running_nsp_loss = 0
        /\ running_mlm_loss = 0
        /\ step_cnt = 0
        /\ printed.cnt = expected.cnt
        /\ printed.nsp * expected.cnt = expected.nsp * printed.cnt
        /\ printed.mlm * expected.cnt = expected.mlm * printed.cnt

\* C5: when drawing a batch signals exhaustion the loop restarts the stream
\* and obtains a batch for the same step; exhaustion never ends the process,
\* also when the corpus holds fewer examples than one batch.
C5_ExhaustionRestarts ==
    [][(pc = "draw" /\ di = 0 /\ pc' # "draw" /\ err' # "killed") =>
           (pc' = "train" /\ step' = step)]_vars

(* ======================== claims on the dataset ======================= *)

\* C6: the sequence _to_bert_input returns has length exactly max_len for
\* every pair of input lengths, both empty and both longer than max_len
\* included.
C6_AssembledLength ==
    result.op = "to_bert_input" => Len(result.out) = max_len

\* both inputs are longer than max_len and were assembled
C6_Witness ==
    /\ result.op = "to_bert_input"
    /\ Len(result.prev) > max_len
    /\ Len(result.next) > max_len
    /\ Len(result.out) = max_len

\* the positions (from 1) of [SEP] in the argument of the last call
ArgSeps == {i \in 1..Len(result.arg.v) : result.arg.v[i] = sep_id}

\* C7: for every token-id tensor the segment ids have the length of the
\* input and are 0 or 1; with exactly two [SEP] at a < b the positions with
\* segment id 1 are exactly a+1..b; with any other number of [SEP] the
\* result is all zeros; no error is raised.
C7_SegmentIds ==
    (result.op = "token_ids_to_segment_ids" /\ result.arg.kind = "tensor") =>
        /\ result.status = "ok"
        /\ Len(result.seg) = Len(result.arg.v)
        /\ \A i \in 1..Len(result.seg) :
               /\ result.seg[i] \in {0, 1}
               /\ result.seg[i] = 1 <=>
                      /\ Cardinality(ArgSeps) = 2
                      /\ \E a \in ArgSeps, b \in ArgSeps : a < i /\ i <= b

\* two [SEP] with a token between them and padding after the second
C7_Witness ==
    /\ result.op = "token_ids_to_segment_ids"
    /\ result.arg = Tensor(<<sep_id, 5, sep_id, pad_id>>)
    /\ result.seg = <<0, 1, 1, 0>>

\* the positions (from 1) of [SEP] in the assembled sequence of the last call
OutSeps == {i \in 1..Len(result.out) : result.out[i] = sep_id}

\* C8: in an Example whose sequence holds exactly two [SEP], every position
\* after the first segment through the end has segment id 1, padding
\* included; the corpus ([5,6], [7,6]) with max_len 8 gives, for index 0 and
\* its successor, token ids [1,5,6,2,7,6,2,0] and segment ids
\* [0,0,0,0,1,1,1,1].
C8_ExampleSegments ==
    /\ (result.op = "getitem" /\ result.status = "ok"
            /\ Cardinality(OutSeps) = 2) =>
           \A i \in 1..Len(result.out) :
               result.seg[i] = (IF i > SetMin(OutSeps) THEN 1 ELSE 0)
    /\ (/\ result.op = "getitem"
        /\ ls_token_ids = <<<<5, 6>>, <<7, 6>>>>
        /\ max_len = 8
        /\ result.idx = 0
        /\ result.coin = "is_next") =>
           /\ result.status = "ok"
           /\ result.out = <<1, 5, 6, 2, 7, 6, 2, 0>>
           /\ result.seg = <<0, 0, 0, 0, 1, 1, 1, 1>>

\* C9: on the not-next branch _sample_next_sentence returns label 0 with the
\* stored sequence of a paragraph of the corpus, and never fails.
C9_NotNextSample ==
    (result.op = "sample_next_sentence" /\ result.coin = "not_next") =>
        /\ result.status = "ok"
        /\ result.is_next = 0
        /\ \E j \in 1..Len(ls_token_ids) : result.out = ls_token_ids[j]

\* C10: on the is-next branch _sample_next_sentence(idx) returns label 1 with
\* the stored sequence of paragraph idx+1 for idx up to length-2, and raises
\* IndexError for the last paragraph, for which __getitem__ produces no
\* Example; it never wraps around to paragraph 0.
C10_IsNextSample ==
    /\ (result.op = "sample_next_sentence" /\ result.coin = "is_next") =>
           IF result.idx <= Len(ls_token_ids) - 2
           THEN /\ result.status = "ok"
                /\ result.is_next = 1
                /\ result.out = ls_token_ids[result.idx + 2]
           ELSE /\ result.status = "IndexError"
                /\ result.out = <<>>
    /\ (/\ result.op = "getitem"
        /\ result.coin = "is_next"
        /\ result.idx = Len(ls_token_ids) - 1) =>
           /\ result.status = "IndexError"
           /\ result.out = <<>>
           /\ result.seg = <<>>

\* the successor of the last of two different paragraphs was asked for
C10_Witness ==
    /\ result.op = "sample_next_sentence"
    /\ result.coin = "is_next"
    /\ Len(ls_token_ids) = 2
    /\ ls_token_ids[1] # ls_token_ids[2]
    /\ result.idx = 1
    /\ result.status = "IndexError"

\* the second sentence of the last call: what _sample_next_sentence returned
SecondSentence ==
    IF result.op = "getitem" THEN result.next ELSE result.out

\* the last call returned: a sample, or an Example
Returned ==
    result.op \in {"sample_next_sentence", "getitem"} /\ result.status = "ok"

\* the second sentence is the stored sequence of paragraph idx+1
IsSuccessor ==
    /\ result.idx + 2 <= Len(ls_token_ids)
    /\ SecondSentence = ls_token_ids[result.idx + 2]

BudgetLimbs == <<0, 0, 72, 131>>

\* C13: N_STEPS is the integer quotient of the token budget
\* 256*512*1,000,000 by batch_size * max_len: N_STEPS * d <= budget <
\* (N_STEPS + 1) * d; for batch size 256 and max_len 512 it is 1,000,000.
C13_TotalSteps ==
    pc = "n_steps" =>
        LET d == batch_size * max_len
        IN /\ ~BigLess(BudgetLimbs, BigMul(N_STEPS, d))
           /\ BigLess(BudgetLimbs, BigMul(BigAdd(N_STEPS, <<1>>), d))
           /\ (batch_size = 256 /\ max_len = 512) => N_STEPS = <<0, 0, 1>>

\* N_STEPS was computed for the published recipe
C13_Witness ==
    /\ pc = "n_steps"
    /\ batch_size = 256
    /\ max_len = 512
    /\ N_STEPS = <<0, 0, 1>>

\* step is a multiple of the save interval (no step from 1 on is a multiple
\* of 0) or the last step
CkptDue ==
    (SaveInterval # 0 /\ step % SaveInterval = 0) \/ (step = N_STEPS)

\* C14: in the step loop a checkpoint is written at step s if and only if s
\* is a multiple of the save interval or s = N_STEPS, at most once per step,
\* for every positive batch size, those larger than config.N_CKPT_SAMPLES
\* included.
C14_SaveIffDue ==
    [][/\ (pc = "check" /\ pc' # "check" /\ err' # "killed") =>
              /\ pc' \in {"save", "for"}
              /\ pc' = "save" <=> CkptDue
       /\ (pc = "save" /\ pc' = "saving") => step \notin written]_vars

\* the step loop executes init_step + 1, init_step + 2, ... once each: the
\* steps executed so far are exactly those from init_step + 1 to the
\* current one, and none is beyond N_STEPS
StepsInOrder ==
    /\ step <= N_STEPS
    /\ pc \in {"draw", "train"} => executed = step - init_step - 1
    /\ pc \in {"check", "save", "saving", "rotate"} =>
           executed = step - init_step
    /\ pc = "done" => executed = N_STEPS - init_step

\* at DONE the last checkpoint written is complete and records N_STEPS
DoneRecordsLastStep ==
    pc = "done" =>
        /\ recovery # 0
        /\ disk[recovery].state = "full"
        /\ disk[recovery].step = N_STEPS

\* the process ended on an exception the loop raised itself
StoppedShort ==
    /\ pc = "off"
    /\ err \in {"StopIteration", "ZeroDivisionError", "AttributeError"}

\* C15: from every init_step in 0..N_STEPS the loop executes the steps
\* init_step + 1 .. N_STEPS once each in increasing order, none beyond
\* N_STEPS, does not end before DONE on its own, and at DONE the last
\* checkpoint written records N_STEPS.
C15_RunsToDone ==
    /\ StepsInOrder
    /\ DoneRecordsLastStep
    /\ ~StoppedShort

\* the arguments of the last _to_bert_input call hold no [SEP]
NoSepInInputs ==
    /\ \A i \in 1..Len(result.prev) : result.prev[i] # sep_id
    /\ \A i \in 1..Len(result.next) : result.next[i] # sep_id

\* C16: for every max_len >= 3 and inputs without [SEP] the sequence
\* _to_bert_input returns holds exactly two [SEP]: the first right after the
\* kept part of the first sentence, at position 1 + min(len(prev),
\* max_len - 3) counted from 0, the second as the last token that is not
\* padding, with only [PAD] after it; so the segment ids derived from it are
\* never the all-zero fallback.
C16_TwoSeparators ==
    (result.op = "to_bert_input" /\ max_len >= 3 /\ NoSepInInputs) =>
        LET a == SetMin(OutSeps)
            b == SetMax(OutSeps)
        IN /\ Cardinality(OutSeps) = 2
           /\ a = 2 + Min(Len(result.prev), max_len - 3)
           /\ \A i \in (b + 1)..Len(result.out) : result.out[i] = pad_id
           /\ \A i \in 1..(b - 1) : result.out[i] # pad_id
           /\ Cardinality(SepPositions(result.out)) = 2
           /\ segment_ids(result.out) # Repeat(0, Len(result.out))

\* both sentences were cut: the first to max_len - 3 tokens, the second by
\* the truncation to max_len - 1
C16_Witness ==
    /\ result.op = "to_bert_input"
    /\ max_len >= 3
    /\ NoSepInInputs
    /\ Len(result.prev) > max_len - 3
    /\ Len(result.next) > 1
    /\ OutSeps = {max_len - 1, max_len}

====
